---- MODULE Spec2Model ----
(***************************************************************************)
(* PubMed coauthor affiliations: the deduplicator get_latest_affiliations  *)
(* and the text normalizers of util.py, and the script app.py that calls   *)
(* them.                                                                   *)
(*                                                                         *)
(* Python values are records [t, v]: t is the Python type, v the value's   *)
(* characters (a sequence of one-character strings).  Dates are naturals.  *)
(***************************************************************************)
EXTENDS Integers, Sequences, FiniteSets, TLC

VARIABLES
    pc,                      \* position of the script app.py
    skip_none_affiliations,  \* sidebar checkbox, app.py:50
    authors,                 \* app.py:152-154, rebound at app.py:189
    num_articles,            \* app.py:152-154
    starting_authors,        \* app.py:169
    latest,                  \* unique_authors_with_latest_publication, app.py:197
    error,                   \* the st.error message shown, or ""
    uncaught,                \* class of the exception that ended the script, or ""
    should_clean_affiliations,  \* sidebar checkboxes, app.py:62-73
    should_extract_emails,
    should_split_camel_case,
    should_remove_initials,
    df_affiliation,          \* latest_affiliation_df['affiliation']
    df_email,                \* latest_affiliation_df['email'], <<>> while there is no such column
    shown,                   \* the Latest Affiliations table and its download are on the page
    func,                    \* a normalizer called on its own: its name,
    arg,                     \* its argument
    ret                      \* and how the call ended

appVars == <<pc, skip_none_affiliations, authors, num_articles, starting_authors,
             latest, error, uncaught>>

toggles == <<should_clean_affiliations, should_extract_emails, should_split_camel_case,
             should_remove_initials>>

pipeVars == <<toggles, df_affiliation, df_email, shown>>

callVars == <<func, arg, ret>>

vars == <<appVars, pipeVars, callVars>>

(***************************************************************************)
(* Bounds of the model.                                                    *)
(***************************************************************************)
MaxAuthors == 3
MaxDate == 3

(***************************************************************************)
(* Python values.                                                          *)
(***************************************************************************)
None == [t |-> "NoneType", v |-> <<>>]

Str(s) == [t |-> "str", v |-> s]

IsStr(x) == x.t = "str"

\* The characters the model uses, in code point order (Python compares
\* strings by code point).
CodeOrder ==
    << "\t", "\n", " ", "%", "(", ")", "+", ",", "-", ".",
       "0", "1", "2", "3", "4", "5", "6", "7", "8", "9", ":", ";", "@",
       "A", "B", "C", "D", "E", "F", "G", "H", "I", "J", "K", "L", "M",
       "N", "O", "P", "Q", "R", "S", "T", "U", "V", "W", "X", "Y", "Z", "_",
       "a", "b", "c", "d", "e", "f", "g", "h", "i", "j", "k", "l", "m",
       "n", "o", "p", "q", "r", "s", "t", "u", "v", "w", "x", "y", "z" >>

Ord(c) == CHOOSE i \in 1..Len(CodeOrder) : CodeOrder[i] = c

\* s < t for two str values' characters: lexicographic by code point.
RECURSIVE StrLess(_, _)
StrLess(s, t) ==
    IF t = <<>> THEN FALSE
    ELSE IF s = <<>> THEN TRUE
    ELSE IF s[1] = t[1] THEN StrLess(Tail(s), Tail(t))
    ELSE Ord(s[1]) < Ord(t[1])

(***************************************************************************)
(* class Author, util.py:216-243.                                          *)
(***************************************************************************)
Author(ln, fn, ini, aff, d, title) ==
    [last_name |-> ln, first_name |-> fn, initials |-> ini, affiliation |-> aff,
     affiliation_date |-> d, publication_title |-> title]

name(a) ==
    IF a.last_name = None /\ a.first_name = None THEN None
    ELSE IF a.last_name = None THEN a.first_name
    ELSE IF a.first_name = None THEN a.last_name
    ELSE Str(a.last_name.v \o <<",", " ">> \o a.first_name.v)

(***************************************************************************)
(* get_latest_affiliations, util.py:246-293.                               *)
(***************************************************************************)
\* A variant of the key that leaves the name out.
KeyLessDateOnly(a, b) == a.affiliation_date < b.affiliation_date

\* sorted without reverse=True puts the oldest record first.
KeyLessAscending(a, b) ==
    IF name(a) = name(b) THEN b.affiliation_date < a.affiliation_date
    ELSE StrLess(name(b).v, name(a).v)

\* The sort key (x.name, x.affiliation_date) of a is less than that of b:
\* Python's tuple comparison, names first, dates when the names are equal.
KeyLess(a, b) ==
    IF name(a) = name(b) THEN a.affiliation_date < b.affiliation_date
    ELSE StrLess(name(a).v, name(b).v)

\* Comparing the keys raises TypeError when one name is None and the other a
\* str (two None names are equal and the dates decide).
sort_raises(as) ==
    \E i, j \in 1..Len(as) : name(as[i]) = None /\ name(as[j]) # None

\* x put into the descending sequence s after every element whose key is not
\* less than x's: equal keys keep their order of insertion.
InsertDesc(s, x) ==
    LET k == Cardinality({j \in 1..Len(s) : ~KeyLess(s[j], x)})
    IN  SubSeq(s, 1, k) \o <<x>> \o SubSeq(s, k + 1, Len(s))

\* A variant of the sort that reverses an ascending stable sort: equal keys
\* come out in the reverse of their input order.
sorted_reverse_by_reversal(as) ==
    LET InsertFront(s, x) ==
            LET k == Cardinality({j \in 1..Len(s) : KeyLess(x, s[j])})
            IN  SubSeq(s, 1, k) \o <<x>> \o SubSeq(s, k + 1, Len(s))
        F[i \in 0..Len(as)] == IF i = 0 THEN <<>> ELSE InsertFront(F[i - 1], as[i])
    IN  F[Len(as)]

\* sorted(authors, key=..., reverse=True): descending by key, and stable (the
\* reverse flag keeps records with equal keys in their input order).
sorted_reverse(as) ==
    LET F[i \in 0..Len(as)] == IF i = 0 THEN <<>> ELSE InsertDesc(F[i - 1], as[i])
    IN  F[Len(as)]

\* itertools.groupby(authors_sorted, key=name): the maximal runs of consecutive
\* records with equal name, in order.
groupby(s) ==
    LET F[i \in 0..Len(s)] ==
            IF i = 0 THEN <<>>
            ELSE IF i > 1 /\ name(s[i]) = name(s[i - 1])
                 THEN [F[i - 1] EXCEPT ![Len(F[i - 1])] = Append(@, s[i])]
                 ELSE Append(F[i - 1], <<s[i]>>)
    IN  F[Len(s)]

\* A variant of the choice that drops a group without any affiliation.
select_or_drop(group_authors, skip) ==
    IF skip
    THEN IF \A i \in 1..Len(group_authors) : group_authors[i].affiliation = None
         THEN <<>>
         ELSE LET i == CHOOSE k \in 1..Len(group_authors) :
                           /\ group_authors[k].affiliation # None
                           /\ \A m \in 1..(k - 1) : group_authors[m].affiliation = None
              IN  <<group_authors[i]>>
    ELSE <<group_authors[1]>>

\* A variant of the choice that ignores skip_none_affiliations.
select_first(group_authors, skip) == <<group_authors[1]>>

\* A variant of the choice that returns the latest record of the group with
\* the latest affiliation of the group written into it.
select_merged(group_authors, skip) ==
    IF skip
    THEN IF \A i \in 1..Len(group_authors) : group_authors[i].affiliation = None
         THEN <<group_authors[1]>>
         ELSE LET i == CHOOSE k \in 1..Len(group_authors) :
                           /\ group_authors[k].affiliation # None
                           /\ \A m \in 1..(k - 1) : group_authors[m].affiliation = None
              IN  <<[group_authors[1] EXCEPT
                        !.affiliation = group_authors[i].affiliation]>>
    ELSE <<group_authors[1]>>

\* The body of the loop over the groups, util.py:281-291: what one group
\* appends to the result.
select(group_authors, skip) ==
    IF skip
    THEN IF \A i \in 1..Len(group_authors) : group_authors[i].affiliation = None
         THEN <<group_authors[1]>>
         ELSE LET i == CHOOSE k \in 1..Len(group_authors) :
                           /\ group_authors[k].affiliation # None
                           /\ \A m \in 1..(k - 1) : group_authors[m].affiliation = None
              IN  <<group_authors[i]>>
    ELSE <<group_authors[1]>>

get_latest_affiliations(as, skip) ==
    LET groups == groupby(sorted_reverse(as))
        F[g \in 0..Len(groups)] ==
            IF g = 0 THEN <<>> ELSE F[g - 1] \o select(groups[g], skip)
    IN  F[Len(groups)]

(***************************************************************************)
(* Regular expressions of util.py.  A pattern is named; MatchEnd(pat, s, i) *)
(* is the position after the match of pat that starts at position i of s,  *)
(* or 0 when pat does not match there (no pattern matches the empty        *)
(* string).                                                                *)
(***************************************************************************)
Lower == {CodeOrder[i] : i \in {k \in 1..Len(CodeOrder) : Ord("a") <= k /\ k <= Ord("z")}}

Upper == {CodeOrder[i] : i \in {k \in 1..Len(CodeOrder) : Ord("A") <= k /\ k <= Ord("Z")}}

Digit == {CodeOrder[i] : i \in {k \in 1..Len(CodeOrder) : Ord("0") <= k /\ k <= Ord("9")}}

Letter == Lower \cup Upper

\* \s
Whitespace == {" ", "\n", "\t"}

\* [a-zA-Z0-9._%+-] and [a-zA-Z0-9.-], util.py:77
EmailLocal == Letter \cup Digit \cup {".", "_", "%", "+", "-"}

EmailDomain == Letter \cup Digit \cup {".", "-"}

At(s, i) == IF 1 <= i /\ i <= Len(s) THEN s[i] ELSE ""

\* The position after the longest run of characters of C that starts at i.
RECURSIVE RunEnd(_, _, _)
RunEnd(s, i, C) == IF At(s, i) \in C THEN RunEnd(s, i + 1, C) ELSE i

Literal(s, i, w) ==
    IF \A k \in 1..Len(w) : At(s, i + k - 1) = w[k] THEN i + Len(w) ELSE 0

ElectronicAddress ==
    <<"E", "l", "e", "c", "t", "r", "o", "n", "i", "c", " ",
      "a", "d", "d", "r", "e", "s", "s", ":">>

\* ([A-Z]\.\,?\s?)+ from position i: the position after the last repetition,
\* or i when there is none.
RECURSIVE InitialsEnd(_, _)
InitialsEnd(s, i) ==
    LET AfterSpace(c) == IF At(s, c) \in Whitespace THEN c + 1 ELSE c
        AfterComma(c) == IF At(s, c) = "," THEN c + 1 ELSE c
    IN  IF At(s, i) \in Upper /\ At(s, i + 1) = "."
        THEN InitialsEnd(s, AfterSpace(AfterComma(i + 2)))
        ELSE i

\* [a-zA-Z0-9._%+-]+@[a-zA-Z0-9.-]+\.[a-zA-Z]{2,} : the local part is the run
\* up to the @; the domain part gives back characters up to the last dot of
\* its run that two letters follow.
EmailEnd(s, i) ==
    LET Dots(a, r) == {q \in (a + 2)..(r - 1) :
                          /\ s[q] = "."
                          /\ At(s, q + 1) \in Letter
                          /\ At(s, q + 2) \in Letter}
        Last(dots) == CHOOSE x \in dots : \A y \in dots : y <= x
        FromDots(dots) == IF dots # {} THEN RunEnd(s, Last(dots) + 1, Letter) ELSE 0
        FromAt(a) ==
            IF a > i /\ At(s, a) = "@"
            THEN FromDots(Dots(a, RunEnd(s, a + 1, EmailDomain)))
            ELSE 0
    IN  FromAt(RunEnd(s, i, EmailLocal))

\* A run of at least one character (from position `from`, ending before j)
\* and then the character c.
RunThen(s, from, j, c) == IF j > from /\ At(s, j) = c THEN j + 1 ELSE 0

MatchEnd(pat, s, i) ==
    CASE pat = "\\s+," -> RunThen(s, i, RunEnd(s, i, Whitespace), ",")
      [] pat = "\\s+" -> IF At(s, i) \in Whitespace THEN RunEnd(s, i, Whitespace) ELSE 0
      [] pat = "\\.\\s+\\." ->
            IF At(s, i) = "." THEN RunThen(s, i + 1, RunEnd(s, i + 1, Whitespace), ".") ELSE 0
      [] pat = "\\s+\\." -> RunThen(s, i, RunEnd(s, i, Whitespace), ".")
      [] pat = "Electronic address:" -> Literal(s, i, ElectronicAddress)
      [] pat = "email" -> EmailEnd(s, i)
      [] pat = "\\(([A-Z]\\.\\,?\\s?)+\\)" ->
            IF At(s, i) = "(" THEN RunThen(s, i + 1, InitialsEnd(s, i + 1), ")") ELSE 0
      [] pat = "([a-zA-Z])(\\d{5})" ->
            IF At(s, i) \in Letter /\ \A k \in 1..5 : At(s, i + k) \in Digit
            THEN i + 6 ELSE 0
      [] pat = "([a-z])([a-z])([A-Z])([a-z])" ->
            IF /\ At(s, i) \in Lower /\ At(s, i + 1) \in Lower
               /\ At(s, i + 2) \in Upper /\ At(s, i + 3) \in Lower
            THEN i + 4 ELSE 0
      [] pat = "([a-z])([a-z])([A-Z])([A-Z])" ->
            IF /\ At(s, i) \in Lower /\ At(s, i + 1) \in Lower
               /\ At(s, i + 2) \in Upper /\ At(s, i + 3) \in Upper
            THEN i + 4 ELSE 0
      [] pat = "([0-9])([A-Z])([a-z])" ->
            IF At(s, i) \in Digit /\ At(s, i + 1) \in Upper /\ At(s, i + 2) \in Lower
            THEN i + 3 ELSE 0

\* The replacement of the match s[i..e-1] of pat.
Replacement(pat, s, i, e) ==
    CASE pat = "\\s+," -> <<",">>
      [] pat = "\\s+" -> <<" ">>
      [] pat = "\\.\\s+\\." -> <<".">>
      [] pat = "\\s+\\." -> <<".">>
      [] pat = "Electronic address:" -> <<>>
      [] pat = "email" -> <<>>
      [] pat = "\\(([A-Z]\\.\\,?\\s?)+\\)" -> <<>>
      [] pat = "([a-zA-Z])(\\d{5})" -> <<s[i], " ">> \o SubSeq(s, i + 1, i + 5)
      [] pat = "([a-z])([a-z])([A-Z])([a-z])" -> <<s[i], s[i + 1], " ", s[i + 2], s[i + 3]>>
      [] pat = "([a-z])([a-z])([A-Z])([A-Z])" -> <<s[i], s[i + 1], " ", s[i + 2], s[i + 3]>>
      [] pat = "([0-9])([A-Z])([a-z])" -> <<s[i], " ", s[i + 1], s[i + 2]>>

\* re.sub(pat, repl, s): one scan from the left; after a match the scan
\* resumes behind it.
RECURSIVE SubFrom(_, _, _)
SubFrom(pat, s, i) ==
    LET Step(e) == IF e = 0 THEN <<s[i]>> \o SubFrom(pat, s, i + 1)
                   ELSE Replacement(pat, s, i, e) \o SubFrom(pat, s, e)
    IN  IF i > Len(s) THEN <<>> ELSE Step(MatchEnd(pat, s, i))

re_sub(pat, s) == SubFrom(pat, s, 1)

\* re.findall(pat, s): the matches of the same scan.
RECURSIVE FindFrom(_, _, _)
FindFrom(pat, s, i) ==
    LET Step(e) == IF e = 0 THEN FindFrom(pat, s, i + 1)
                   ELSE <<SubSeq(s, i, e - 1)>> \o FindFrom(pat, s, e)
    IN  IF i > Len(s) THEN <<>> ELSE Step(MatchEnd(pat, s, i))

re_findall(pat, s) == FindFrom(pat, s, 1)

\* str.strip()
strip(s) ==
    LET Lo(keep) == CHOOSE i \in keep : \A j \in keep : i <= j
        Hi(keep) == CHOOSE i \in keep : \A j \in keep : j <= i
        Between(keep) == IF keep = {} THEN <<>> ELSE SubSeq(s, Lo(keep), Hi(keep))
    IN  Between({i \in 1..Len(s) : s[i] \notin Whitespace})

\* str.replace('\n', '; ')
RECURSIVE replace_newlines(_)
replace_newlines(s) ==
    IF s = <<>> THEN <<>>
    ELSE (IF s[1] = "\n" THEN <<";", " ">> ELSE <<s[1]>>) \o replace_newlines(Tail(s))

\* ';'.join(emails)
RECURSIVE join(_)
join(ws) ==
    IF ws = <<>> THEN <<>>
    ELSE IF Len(ws) = 1 THEN ws[1]
    ELSE ws[1] \o <<";">> \o join(Tail(ws))

(***************************************************************************)
(* The normalizers.  A call ends by returning a value or by raising:       *)
(* [exc |-> "", val |-> v] or [exc |-> <class>, val |-> None].             *)
(***************************************************************************)
Return(v) == [exc |-> "", val |-> v]

Raise(cls) == [exc |-> cls, val |-> None]

\* The substitutions of pats, each run once over the output of the one
\* before it.
RECURSIVE sub_all(_, _)
sub_all(pats, s) ==
    IF pats = <<>> THEN s ELSE sub_all(Tail(pats), re_sub(Head(pats), s))

\* A variant without the isinstance check: the value comes back as it is.
clean_affiliations_unchecked(affiliation) ==
    IF affiliation = None THEN Return(None)
    ELSE IF ~IsStr(affiliation) THEN Return(affiliation)
    ELSE Return(Str(strip(sub_all(<<"\\s+,", "\\s+">>, replace_newlines(affiliation.v)))))

\* util.py:102-145
clean_affiliations(affiliation) ==
    IF affiliation = None THEN Return(None)
    ELSE IF ~IsStr(affiliation) THEN Raise("ValueError")
    ELSE Return(Str(strip(sub_all(<<"\\s+,", "\\s+">>, replace_newlines(affiliation.v)))))

\* ';'.join(emails) if emails else None
email_str(emails) == IF emails # <<>> THEN Str(join(emails)) ELSE None

\* util.py:53-99; re.findall raises TypeError on a value that is not a str.
extract_emails(text) ==
    IF text = None THEN Return(<<None, None>>)
    ELSE IF ~IsStr(text) THEN Raise("TypeError")
    ELSE Return(<< Str(strip(sub_all(
                       <<"email", "Electronic address:", "\\.\\s+\\.", "\\s+">>, text.v))),
                   email_str(re_findall("email", text.v)) >>)

\* The four substitutions of split_camel_case, util.py:202-211, in order.
CamelPasses ==
    << "([a-zA-Z])(\\d{5})",
       "([a-z])([a-z])([A-Z])([a-z])",
       "([a-z])([a-z])([A-Z])([A-Z])",
       "([0-9])([A-Z])([a-z])" >>

\* A variant whose second pass is run again over its own output.
split_camel_case_rescan(affiliation) ==
    IF affiliation = None THEN Return(None)
    ELSE IF ~IsStr(affiliation) THEN Raise("TypeError")
    ELSE Return(Str(sub_all(
            <<CamelPasses[1], CamelPasses[2], CamelPasses[2], CamelPasses[3], CamelPasses[4]>>,
            affiliation.v)))

\* A variant without the None check: re.sub raises TypeError on None.
split_camel_case_unguarded(affiliation) ==
    IF ~IsStr(affiliation) THEN Raise("TypeError")
    ELSE Return(Str(sub_all(CamelPasses, affiliation.v)))

\* util.py:148-213; re.sub raises TypeError on a value that is not a str.
split_camel_case(affiliation) ==
    IF affiliation = None THEN Return(None)
    ELSE IF ~IsStr(affiliation) THEN Raise("TypeError")
    ELSE Return(Str(sub_all(CamelPasses, affiliation.v)))

\* util.py:10-50; re.sub raises TypeError on a value that is not a str.
remove_parentheses_with_initials(text) ==
    IF text = None THEN Return(None)
    ELSE IF ~IsStr(text) THEN Raise("TypeError")
    ELSE Return(Str(strip(sub_all(
            <<"\\(([A-Z]\\.\\,?\\s?)+\\)", "\\.\\s+\\.", "\\s+", "\\s+\\.">>, text.v))))

(***************************************************************************)
(* The records a query can return.                                         *)
(***************************************************************************)
DigitChar == <<"1", "2", "3", "4", "5", "6", "7", "8", "9">>

Dates == 1..MaxDate

Title(d) == Str(<<"T", DigitChar[d]>>)

Affiliations == {None, Str(<<"X">>), Str(<<"Y">>)}

\* Three people and a record without any name: "B, A" with every affiliation
\* and date, "A" (no last name), "B" (no first name), and the nameless one,
\* each of these on the first date.
AuthorPool ==
    {Author(Str(<<"B">>), Str(<<"A">>), Str(<<"J">>), aff, d, Title(d)) :
        aff \in Affiliations, d \in Dates}
    \cup {Author(None, Str(<<"A">>), None, aff, d, Title(d)) :
        aff \in {None, Str(<<"X">>)}, d \in {1}}
    \cup {Author(Str(<<"B">>), None, None, None, 1, Title(1))}
    \cup {Author(None, None, None, Str(<<"X">>), 1, Title(1))}

AuthorLists == UNION {[1..n -> AuthorPool] : n \in 0..MaxAuthors}

DistinctTitles(as) == Cardinality({as[i].publication_title : i \in 1..Len(as)})

(***************************************************************************)
(* The script app.py, from the query to the deduplicated list.             *)
(***************************************************************************)
\* No normalizer is being called on its own.
NoCall == func = "" /\ arg = None /\ ret = [exc |-> "", val |-> None]

\* The 'affiliation' column of the table built from a list of authors.
column(as) == [i \in 1..Len(as) |-> as[i].affiliation]

Init ==
    /\ pc = "query"
    /\ skip_none_affiliations \in BOOLEAN
    /\ authors = <<>>
    /\ num_articles = 0
    /\ starting_authors = 0
    /\ latest = <<>>
    /\ error = ""
    /\ uncaught = ""
    /\ should_clean_affiliations = TRUE
    /\ should_extract_emails = TRUE
    /\ should_split_camel_case = TRUE
    /\ should_remove_initials = TRUE
    /\ df_affiliation = <<>>
    /\ df_email = <<>>
    /\ shown = FALSE
    /\ NoCall

\* query_pubmed, app.py:94-129, called at app.py:154: every article counts, and
\* an article may have no authors.
QueryPubmed ==
    /\ pc = "query"
    /\ \E as \in AuthorLists :
          /\ authors' = as
          /\ num_articles' \in IF as = <<>> THEN {0, 1} ELSE {DistinctTitles(as)}
    /\ pc' = "check"
    /\ UNCHANGED <<skip_none_affiliations, starting_authors, latest, error, uncaught>>
    /\ UNCHANGED <<pipeVars, callVars>>

\* mock_query_pubmed, app.py:132-148, called at app.py:152: one record per row,
\* and the number of distinct titles.
MockQueryPubmed ==
    /\ pc = "query"
    /\ \E as \in AuthorLists :
          /\ authors' = as
          /\ num_articles' = DistinctTitles(as)
    /\ pc' = "check"
    /\ UNCHANGED <<skip_none_affiliations, starting_authors, latest, error, uncaught>>
    /\ UNCHANGED <<pipeVars, callVars>>

\* app.py:156-169.
CheckResults ==
    /\ pc = "check"
    /\ IF num_articles = 0
       THEN /\ error' = "No articles found for the given query."
            /\ pc' = "stopped"
            /\ UNCHANGED starting_authors
       ELSE IF Len(authors) = 0
       THEN /\ error' = "No authors found in the articles."
            /\ pc' = "stopped"
            /\ UNCHANGED starting_authors
       ELSE /\ starting_authors' = Len(authors)
            /\ pc' = "filter"
            /\ UNCHANGED error
    /\ UNCHANGED <<skip_none_affiliations, authors, num_articles, latest, uncaught>>
    /\ UNCHANGED <<pipeVars, callVars>>

\* A variant of the filter that also keeps a nameless record that has an
\* affiliation.
has_name_or_affiliation(a) ==
    a.first_name # None \/ a.last_name # None \/ a.affiliation # None

\* The filter of app.py:189.
has_valid_name(a) == a.first_name # None \/ a.last_name # None

\* app.py:188-191.
FilterNames ==
    /\ pc = "filter"
    /\ authors' = SelectSeq(authors, has_valid_name)
    /\ pc' = "latest"
    /\ UNCHANGED <<skip_none_affiliations, num_articles, starting_authors, latest,
                   error, uncaught>>
    /\ UNCHANGED <<pipeVars, callVars>>

\* app.py:197-199: the call, and the table built from its result (a table of
\* no rows has no 'name' column: KeyError).
GetLatest ==
    /\ pc = "latest"
    /\ IF sort_raises(authors)
       THEN /\ uncaught' = "TypeError"
            /\ pc' = "crashed"
            /\ UNCHANGED <<latest, df_affiliation>>
       ELSE /\ latest' = get_latest_affiliations(authors, skip_none_affiliations)
            /\ df_affiliation' = column(latest')
            /\ IF latest' = <<>>
               THEN uncaught' = "KeyError" /\ pc' = "crashed"
               ELSE pc' = "clean" /\ UNCHANGED uncaught
    /\ UNCHANGED <<skip_none_affiliations, authors, num_articles, starting_authors, error>>
    /\ UNCHANGED <<toggles, df_email, shown, callVars>>

Next ==
    \/ QueryPubmed
    \/ MockQueryPubmed
    \/ CheckResults
    \/ FilterNames
    \/ GetLatest

Spec == Init /\ [][Next]_vars

(***************************************************************************)
(* The normalizer pipeline of app.py:201-248.                              *)
(***************************************************************************)
Call(f, x) ==
    CASE f = "clean_affiliations" -> clean_affiliations(x)
      [] f = "extract_emails" -> extract_emails(x)
      [] f = "split_camel_case" -> split_camel_case(x)
      [] f = "remove_parentheses_with_initials" -> remove_parentheses_with_initials(x)

\* Series.map(f): f is called on every value, None included, from the first
\* row on; the first call that raises ends the map.
map(col, f) ==
    LET First(raised) == CHOOSE i \in raised : \A j \in raised : i <= j
        Outcome(results, raised) ==
            IF raised = {}
            THEN Return([i \in 1..Len(col) |-> results[i].val])
            ELSE Raise(results[First(raised)].exc)
        Collect(results) ==
            Outcome(results, {i \in 1..Len(col) : results[i].exc # ""})
    IN  Collect([i \in 1..Len(col) |-> Call(f, col[i])])

\* A variant of the order of the stages: split_camel_case before extract_emails.
StageAfterCamelFirst(stage) ==
    CASE stage = "clean" -> "camel"
      [] stage = "camel" -> "emails"
      [] stage = "emails" -> "initials"
      [] stage = "initials" -> "show"

\* The order of the four try blocks, and the table after them.
StageAfter(stage) ==
    CASE stage = "clean" -> "emails"
      [] stage = "emails" -> "camel"
      [] stage = "camel" -> "initials"
      [] stage = "initials" -> "show"

\* The message of each except clause.
StageMessage(stage) ==
    CASE stage = "clean" -> "Error cleaning affiliations"
      [] stage = "emails" -> "Error extracting emails"
      [] stage = "camel" -> "Error splitting camel case"
      [] stage = "initials" -> "Error removing initials"

\* How a try block ends when its map raised: except ValueError shows the
\* stage's message and stops the script; any other exception is not caught.
StageRaised(stage, exc) ==
    /\ IF exc = "ValueError"
       THEN error' = StageMessage(stage) /\ pc' = "stopped" /\ UNCHANGED uncaught
       ELSE uncaught' = exc /\ pc' = "crashed" /\ UNCHANGED error
    /\ UNCHANGED <<df_affiliation, df_email>>

\* A try block whose map ended as r: the column is assigned when it returned.
StageMapped(stage, r) ==
    IF r.exc = ""
    THEN /\ df_affiliation' = r.val
         /\ pc' = StageAfter(stage)
         /\ UNCHANGED <<df_email, error, uncaught>>
    ELSE StageRaised(stage, r.exc)

\* The try block of extract_emails: zip(*pairs) gives the two columns.
StageMappedPairs(stage, r) ==
    IF r.exc = ""
    THEN /\ df_affiliation' = [i \in 1..Len(r.val) |-> r.val[i][1]]
         /\ df_email' = [i \in 1..Len(r.val) |-> r.val[i][2]]
         /\ pc' = StageAfter(stage)
         /\ UNCHANGED <<error, uncaught>>
    ELSE StageRaised(stage, r.exc)

\* A try block whose checkbox is off.
StageSkipped(stage) ==
    /\ pc' = StageAfter(stage)
    /\ UNCHANGED <<df_affiliation, df_email, error, uncaught>>

\* app.py:201-206
StageClean ==
    /\ pc = "clean"
    /\ IF should_clean_affiliations
       THEN StageMapped("clean", map(df_affiliation, "clean_affiliations"))
       ELSE StageSkipped("clean")
    /\ UNCHANGED <<skip_none_affiliations, authors, num_articles, starting_authors, latest>>
    /\ UNCHANGED <<toggles, shown, callVars>>

\* app.py:208-214
StageExtractEmails ==
    /\ pc = "emails"
    /\ IF should_extract_emails
       THEN StageMappedPairs("emails", map(df_affiliation, "extract_emails"))
       ELSE StageSkipped("emails")
    /\ UNCHANGED <<skip_none_affiliations, authors, num_articles, starting_authors, latest>>
    /\ UNCHANGED <<toggles, shown, callVars>>

\* app.py:216-221
StageSplitCamelCase ==
    /\ pc = "camel"
    /\ IF should_split_camel_case
       THEN StageMapped("camel", map(df_affiliation, "split_camel_case"))
       ELSE StageSkipped("camel")
    /\ UNCHANGED <<skip_none_affiliations, authors, num_articles, starting_authors, latest>>
    /\ UNCHANGED <<toggles, shown, callVars>>

\* app.py:223-229
StageRemoveInitials ==
    /\ pc = "initials"
    /\ IF should_remove_initials
       THEN StageMapped("initials", map(df_affiliation, "remove_parentheses_with_initials"))
       ELSE StageSkipped("initials")
    /\ UNCHANGED <<skip_none_affiliations, authors, num_articles, starting_authors, latest>>
    /\ UNCHANGED <<toggles, shown, callVars>>

\* app.py:231-248: the Latest Affiliations table and its download button.
ShowLatest ==
    /\ pc = "show"
    /\ shown' = TRUE
    /\ pc' = "done"
    /\ UNCHANGED <<skip_none_affiliations, authors, num_articles, starting_authors, latest,
                   error, uncaught>>
    /\ UNCHANGED <<toggles, df_affiliation, df_email, callVars>>

MaxRows == 2

\* A value that is neither None nor a str.
NotAString == [t |-> "int", v |-> <<"5">>]

SampleAffiliations ==
    { None,
      NotAString,
      Str(<<"a", "b", "(", "A", ".", ")", "C", "d">>),
      Str(<<"a", "@", "b", ".", "c", "d", "\n", "e", "f">>),
      Str(<<"x", "@", "y", ".", "z", "z", "A", "b">>),
      Str(<<"T", ".", " ", "(", "S", ".", "T", ".", ")", ".">>),
      Str(<<"C", "A", "9", "2", "0", "3", "7">>) }

FirstNameOf == <<"A", "C", "D", "E", "F">>

\* Lists of up to MaxRows people, one record each.
UniqueAuthorLists ==
    UNION {{[i \in 1..n |->
                Author(Str(<<"B">>), Str(<<FirstNameOf[i]>>), None, f[i], 1, Title(1))] :
            f \in [1..n -> SampleAffiliations]} : n \in 1..MaxRows}

\* The script at app.py:200: a query has been answered, the names filtered,
\* the list deduplicated and the table built.
InitPipeline ==
    /\ pc = "clean"
    /\ skip_none_affiliations = TRUE
    /\ authors \in UniqueAuthorLists
    /\ num_articles = DistinctTitles(authors)
    /\ starting_authors = Len(authors)
    /\ latest = get_latest_affiliations(authors, skip_none_affiliations)
    /\ error = ""
    /\ uncaught = ""
    /\ should_clean_affiliations \in BOOLEAN
    /\ should_extract_emails \in BOOLEAN
    /\ should_split_camel_case \in BOOLEAN
    /\ should_remove_initials \in BOOLEAN
    /\ df_affiliation = column(latest)
    /\ df_email = <<>>
    /\ shown = FALSE
    /\ NoCall

NextPipeline ==
    \/ StageClean
    \/ StageExtractEmails
    \/ StageSplitCamelCase
    \/ StageRemoveInitials
    \/ ShowLatest

SpecPipeline == InitPipeline /\ [][NextPipeline]_vars

(***************************************************************************)
(* The normalizers called on their own.                                    *)
(***************************************************************************)
MaxLen == 8

\* The strings of at most MaxLen characters over a lower case letter, an
\* upper case letter and a digit.
CamelStrings == UNION {[1..n -> {"a", "B", "1"}] : n \in 0..MaxLen}

CallInputs == SampleAffiliations \cup {Str(s) : s \in CamelStrings}

InitCalls ==
    /\ pc = "call"
    /\ arg \in CallInputs
    /\ func = ""
    /\ ret = Return(None)
    /\ skip_none_affiliations = TRUE
    /\ authors = <<>>
    /\ num_articles = 0
    /\ starting_authors = 0
    /\ latest = <<>>
    /\ error = ""
    /\ uncaught = ""
    /\ should_clean_affiliations = TRUE
    /\ should_extract_emails = TRUE
    /\ should_split_camel_case = TRUE
    /\ should_remove_initials = TRUE
    /\ df_affiliation = <<>>
    /\ df_email = <<>>
    /\ shown = FALSE

CallNormalizer(f) ==
    /\ pc = "call"
    /\ func' = f
    /\ ret' = Call(f, arg)
    /\ pc' = "returned"
    /\ UNCHANGED <<arg, skip_none_affiliations, authors, num_articles, starting_authors,
                   latest, error, uncaught, pipeVars>>

CallCleanAffiliations == CallNormalizer("clean_affiliations")

CallExtractEmails == CallNormalizer("extract_emails")

CallSplitCamelCase == CallNormalizer("split_camel_case")

CallRemoveParentheses == CallNormalizer("remove_parentheses_with_initials")

NextCalls ==
    \/ CallCleanAffiliations
    \/ CallExtractEmails
    \/ CallSplitCamelCase
    \/ CallRemoveParentheses

SpecCalls == InitCalls /\ [][NextCalls]_vars

(***************************************************************************)
(* Properties of get_latest_affiliations, on the call of app.py:197:       *)
(* authors is the list passed, latest the list returned.                   *)
(***************************************************************************)
Returned == pc = "clean" \/ (pc = "crashed" /\ uncaught = "KeyError")

\* The positions of the input records of the person of authors[k].
Group(k) == {j \in 1..Len(authors) : name(authors[j]) = name(authors[k])}

\* The positions of the output records of that person.
Winners(k) == {i \in 1..Len(latest) : name(latest[i]) = name(authors[k])}

WithAffiliation(k) == {j \in Group(k) : authors[j].affiliation # None}

MaxDateOf(S) ==
    CHOOSE d \in {authors[j].affiliation_date : j \in S} :
        \A j \in S : authors[j].affiliation_date <= d

Earliest(S) == CHOOSE j \in S : \A m \in S : j <= m

\* C1: the output holds exactly one record for each identity of the input and
\* none for an identity that is not in the input, whatever skip_none_affiliations.
C1_OnePerIdentity ==
    Returned =>
        /\ \A k \in 1..Len(authors) : Cardinality(Winners(k)) = 1
        /\ \A i \in 1..Len(latest) :
              \E k \in 1..Len(authors) : name(authors[k]) = name(latest[i])

C1_Witness ==
    /\ pc = "clean"
    /\ Len(authors) = MaxAuthors
    /\ Len(latest) = 2
    /\ skip_none_affiliations

\* C2: with skip_none_affiliations, a person with some affiliation gets a
\* record with an affiliation, dated no earlier than any record of theirs that
\* has one.
C2_SkipNonePicksLatestAffiliated ==
    (Returned /\ skip_none_affiliations) =>
        \A k \in 1..Len(authors) :
            WithAffiliation(k) # {} =>
                /\ Winners(k) # {}
                /\ \A i \in Winners(k) :
                      /\ latest[i].affiliation # None
                      /\ \A j \in WithAffiliation(k) :
                            latest[i].affiliation_date >= authors[j].affiliation_date

C2_Witness ==
    /\ pc = "clean"
    /\ skip_none_affiliations
    /\ \E k \in 1..Len(authors) :
          /\ WithAffiliation(k) # {}
          /\ \E j \in Group(k) :
                /\ authors[j].affiliation = None
                /\ authors[j].affiliation_date > MaxDateOf(WithAffiliation(k))
          /\ \E j, m \in WithAffiliation(k) :
                authors[j].affiliation_date < authors[m].affiliation_date

\* C3: without skip_none_affiliations, a person's record has the greatest date
\* of their records, with or without an affiliation.
C3_NoSkipPicksLatest ==
    (Returned /\ ~skip_none_affiliations) =>
        \A k \in 1..Len(authors) :
            /\ Winners(k) # {}
            /\ \A i \in Winners(k) :
                  latest[i].affiliation_date = MaxDateOf(Group(k))

C3_Witness ==
    /\ pc = "clean"
    /\ ~skip_none_affiliations
    /\ \E k \in 1..Len(authors) :
          /\ WithAffiliation(k) # {}
          /\ MaxDateOf(WithAffiliation(k)) < MaxDateOf(Group(k))
          /\ \E i \in Winners(k) : latest[i].affiliation = None

\* C4: with skip_none_affiliations, a person without any affiliation is still
\* in the output, with the greatest date of their records.
C4_AllNoneFallsBackToLatest ==
    (Returned /\ skip_none_affiliations) =>
        \A k \in 1..Len(authors) :
            WithAffiliation(k) = {} =>
                /\ Winners(k) # {}
                /\ \A i \in Winners(k) :
                      /\ latest[i].affiliation = None
                      /\ latest[i].affiliation_date = MaxDateOf(Group(k))

C4_Witness ==
    /\ pc = "clean"
    /\ skip_none_affiliations
    /\ \E k \in 1..Len(authors) :
          /\ WithAffiliation(k) = {}
          /\ \E j, m \in Group(k) :
                authors[j].affiliation_date < authors[m].affiliation_date
          /\ \E i \in Winners(k) : latest[i].affiliation_date = MaxDateOf(Group(k))

\* C8: records of one person with the same date rank in input order: without
\* skip_none_affiliations the record returned is the earliest in the input of
\* those with the greatest date; with it, the earliest in the input of those
\* with the greatest date among the records that have an affiliation.
C8_TiesKeepInputOrder ==
    Returned =>
        \A k \in 1..Len(authors) :
            LET latestOnes == {j \in Group(k) :
                    authors[j].affiliation_date = MaxDateOf(Group(k))}
                affiliated == WithAffiliation(k)
                latestAffiliated == {j \in affiliated :
                    authors[j].affiliation_date = MaxDateOf(affiliated)}
            IN  /\ ~skip_none_affiliations =>
                      \A i \in Winners(k) : latest[i] = authors[Earliest(latestOnes)]
                /\ (skip_none_affiliations /\ affiliated # {}) =>
                      \A i \in Winners(k) : latest[i] = authors[Earliest(latestAffiliated)]

\* Two records of one person with the same date and different affiliations,
\* the earlier one returned.
C8_Witness ==
    /\ pc = "clean"
    /\ skip_none_affiliations
    /\ \E j, m \in 1..Len(authors) :
          /\ j < m
          /\ name(authors[j]) = name(authors[m])
          /\ authors[j].affiliation_date = authors[m].affiliation_date
          /\ authors[j].affiliation_date = MaxDateOf(WithAffiliation(j) \cup {j})
          /\ authors[j].affiliation # None
          /\ authors[m].affiliation # None
          /\ authors[j].affiliation # authors[m].affiliation
          /\ \E i \in 1..Len(latest) : latest[i] = authors[j]

(***************************************************************************)
(* Properties of the normalizer pipeline, app.py:201-248.                  *)
(***************************************************************************)
FixedOrder == <<"clean", "emails", "camel", "initials">>

StageEnabled(stage) ==
    CASE stage = "clean" -> should_clean_affiliations
      [] stage = "emails" -> should_extract_emails
      [] stage = "camel" -> should_split_camel_case
      [] stage = "initials" -> should_remove_initials

\* What an enabled stage makes of one affiliation.
StageValue(stage, x) ==
    CASE stage = "clean" -> clean_affiliations(x).val
      [] stage = "emails" -> extract_emails(x).val[1]
      [] stage = "camel" -> split_camel_case(x).val
      [] stage = "initials" -> remove_parentheses_with_initials(x).val

\* The affiliation x after the first n stages of the fixed order, the stages
\* that are switched off left out.
AfterStages(n, x) ==
    LET F[k \in 0..n] ==
            IF k = 0 THEN x
            ELSE IF StageEnabled(FixedOrder[k]) THEN StageValue(FixedOrder[k], F[k - 1])
            ELSE F[k - 1]
    IN  F[n]

\* The number of try blocks the script has left behind it.
StagesPassed ==
    CASE pc = "clean" -> 0
      [] pc = "emails" -> 1
      [] pc = "camel" -> 2
      [] pc = "initials" -> 3
      [] pc \in {"show", "done"} -> 4
      [] OTHER -> -1

\* C5: the enabled stages run in the order clean_affiliations, extract_emails,
\* split_camel_case, remove_parentheses_with_initials, each on the output of
\* the enabled stage before it, and a stage that is off changes nothing, for
\* every combination of the four checkboxes.
C5_StagesInFixedOrder ==
    StagesPassed >= 0 =>
        /\ Len(df_affiliation) = Len(latest)
        /\ \A i \in 1..Len(latest) :
              df_affiliation[i] = AfterStages(StagesPassed, latest[i].affiliation)

\* extract_emails is off and the stages around it ran: the address is still
\* there and split_camel_case has split what follows it.
C5_Witness ==
    /\ pc = "done"
    /\ should_clean_affiliations
    /\ ~should_extract_emails
    /\ should_split_camel_case
    /\ should_remove_initials
    /\ \E i \in 1..Len(latest) :
          /\ latest[i].affiliation = Str(<<"x", "@", "y", ".", "z", "z", "A", "b">>)
          /\ df_affiliation[i] = Str(<<"x", "@", "y", ".", "z", "z", " ", "A", "b">>)

\* The first stage that is switched on: the one that fails when the column
\* holds a value that is neither None nor a str.
FirstEnabledStage ==
    FixedOrder[CHOOSE k \in 1..4 :
        /\ StageEnabled(FixedOrder[k])
        /\ \A m \in 1..(k - 1) : ~StageEnabled(FixedOrder[m])]

\* C6: a stage that fails on a value that is neither None nor a str is caught
\* at that stage: the stage's error message is shown and the script stops,
\* without the Latest Affiliations table.
C6_StageFailureCaught ==
    pc \in {"stopped", "crashed"} =>
        /\ pc = "stopped"
        /\ uncaught = ""
        /\ error = StageMessage(FirstEnabledStage)
        /\ ~shown

\* C9: the four normalizers return None for None (extract_emails the pair of
\* None), so a row whose affiliation is None keeps None through the pipeline,
\* and gets None as its email, for every combination of the four checkboxes;
\* such a row never makes a stage fail.
C9_NoneStaysNone ==
    /\ clean_affiliations(None) = Return(None)
    /\ extract_emails(None) = Return(<<None, None>>)
    /\ split_camel_case(None) = Return(None)
    /\ remove_parentheses_with_initials(None) = Return(None)
    /\ (\A i \in 1..Len(latest) : latest[i].affiliation = None \/ IsStr(latest[i].affiliation))
          => pc \notin {"stopped", "crashed"}
    /\ StagesPassed >= 0 =>
          \A i \in 1..Len(latest) :
              latest[i].affiliation = None =>
                  /\ df_affiliation[i] = None
                  /\ df_email # <<>> => df_email[i] = None

C9_Witness ==
    /\ pc = "done"
    /\ shown
    /\ should_clean_affiliations
    /\ should_extract_emails
    /\ should_split_camel_case
    /\ should_remove_initials
    /\ \E i, j \in 1..Len(latest) :
          /\ latest[i].affiliation = None
          /\ df_affiliation[i] = None
          /\ df_email[i] = None
          /\ IsStr(latest[j].affiliation)

(***************************************************************************)
(* Properties of the normalizers called on their own.                      *)
(***************************************************************************)
\* C7: clean_affiliations raises its error for a value of the wrong type (the
\* ValueError of util.py:131) on every value that is neither None nor a str,
\* and returns nothing then; it returns None for None and a str for a str.
C7_CleanRejectsNonStrings ==
    (pc = "returned" /\ func = "clean_affiliations") =>
        /\ arg = None => ret = Return(None)
        /\ IsStr(arg) => (ret.exc = "" /\ IsStr(ret.val))
        /\ (arg # None /\ ~IsStr(arg)) => ret = Raise("ValueError")

C7_Witness ==
    /\ pc = "returned"
    /\ func = "clean_affiliations"
    /\ arg = NotAString
    /\ ret.exc = "ValueError"

\* Pass k of split_camel_case matches at position i of s: (1) a letter and
\* five digits, (2) lower lower Upper lower, (3) lower lower Upper Upper,
\* (4) a digit, Upper, lower.
Window(k, s, i) ==
    LET Is(j, C) == j <= Len(s) /\ s[j] \in C
    IN  CASE k = 1 -> Is(i, Lower \cup Upper) /\ \A d \in 1..5 : Is(i + d, Digit)
          [] k = 2 -> Is(i, Lower) /\ Is(i + 1, Lower) /\ Is(i + 2, Upper) /\ Is(i + 3, Lower)
          [] k = 3 -> Is(i, Lower) /\ Is(i + 1, Lower) /\ Is(i + 2, Upper) /\ Is(i + 3, Upper)
          [] k = 4 -> Is(i, Digit) /\ Is(i + 1, Upper) /\ Is(i + 2, Lower)

WindowLength == <<6, 4, 4, 3>>

\* The space goes behind this many characters of the window.
SpaceBehind == <<1, 2, 2, 1>>

\* The matches of one scan from the left without overlap: a window is a match
\* exactly when no match that begins before it reaches into it.
Matches(k, s) ==
    LET windows == {i \in 1..Len(s) : Window(k, s, i)}
    IN  CHOOSE M \in SUBSET windows :
            \A i \in windows :
                i \in M <=> ~\E j \in M : j < i /\ i < j + WindowLength[k]

\* s with a space put into every match of pass k.
OnePass(k, s) ==
    LET behind == {i + SpaceBehind[k] - 1 : i \in Matches(k, s)}
        F[n \in 0..Len(s)] ==
            IF n = 0 THEN <<>>
            ELSE F[n - 1] \o <<s[n]>> \o (IF n \in behind THEN <<" ">> ELSE <<>>)
    IN  F[Len(s)]

\* C10: split_camel_case of a str is the four passes, each run once over the
\* output of the one before it, each a scan from the left whose matches do
\* not overlap; no pass is repeated until nothing changes.
C10_FourSinglePasses ==
    (pc = "returned" /\ func = "split_camel_case" /\ IsStr(arg)) =>
        ret = Return(Str(OnePass(4, OnePass(3, OnePass(2, OnePass(1, arg.v))))))

\* "aaBaaBa": the second window shares its first letter with the first match,
\* so only one space is put in, and the result still holds a window.
C10_Witness ==
    /\ pc = "returned"
    /\ func = "split_camel_case"
    /\ arg = Str(<<"a", "a", "B", "a", "a", "B", "a">>)
    /\ ret = Return(Str(<<"a", "a", " ", "B", "a", "a", "B", "a">>))
    /\ \E i \in 1..Len(ret.val.v) : Window(2, ret.val.v, i)

(***************************************************************************)
(* Properties of the script around the call of app.py:197.                 *)
(***************************************************************************)
\* The filter of app.py:189 has run.
Filtered == pc \in {"latest", "clean", "crashed"}

\* C11: on either data path, once the filter has run no record of authors,
\* the list given to get_latest_affiliations, has a None name (no last name
\* and no first name), and no record of the result, the rows of the final
\* table, has one.
C11_NullIdentityFiltered ==
    Filtered =>
        /\ \A i \in 1..Len(authors) : name(authors[i]) # None
        /\ \A i \in 1..Len(latest) : name(latest[i]) # None

\* A nameless record came back from the query and the call returned a table.
C11_Witness ==
    /\ pc = "clean"
    /\ starting_authors > Len(authors)
    /\ Len(authors) >= 2
    /\ Len(latest) >= 1

\* C12: a record of the result of get_latest_affiliations is a record of its
\* argument, equal to it in last_name, first_name, initials, affiliation,
\* affiliation_date and publication_title, and the call leaves its argument,
\* the list authors, with the same records in the same order.
C12_OnlySelects ==
    /\ [](Returned =>
            \A i \in 1..Len(latest) : \E k \in 1..Len(authors) :
                /\ latest[i].last_name = authors[k].last_name
                /\ latest[i].first_name = authors[k].first_name
                /\ latest[i].initials = authors[k].initials
                /\ latest[i].affiliation = authors[k].affiliation
                /\ latest[i].affiliation_date = authors[k].affiliation_date
                /\ latest[i].publication_title = authors[k].publication_title)
    /\ [][pc = "latest" => authors' = authors]_vars

\* The call has sorted a list that was not in sorted order, has left records
\* out, and has passed over a later record without affiliation for an earlier
\* one with an affiliation.
C12_Witness ==
    /\ pc = "clean"
    /\ skip_none_affiliations
    /\ authors # sorted_reverse(authors)
    /\ Len(latest) < Len(authors)
    /\ \E i \in 1..Len(latest), j \in 1..Len(authors) :
          /\ name(authors[j]) = name(latest[i])
          /\ authors[j].affiliation = None
          /\ latest[i].affiliation # None
          /\ authors[j].affiliation_date > latest[i].affiliation_date

====
